---- MODULE Spec2Model ----
(***************************************************************************)
(* ResQ-AI evacuation simulation: the SimulationEngine of                  *)
(* src/services/SimulationEngine.ts as a state machine.                    *)
(*                                                                         *)
(* One action per public operation of the engine (init, the commands of    *)
(* executeCommand, click), one for a whole update pass and one for a whole *)
(* frame (loop).  Rendering (draw, trails) is not modelled.                *)
(*                                                                         *)
(* The visual position of an agent is kept in thousandths of a cell, as    *)
(* the interpolation computes it; the jitter added to it in a move,        *)
(* 0.15 * (sin, cos) of one angle and so never the zero vector, is kept as *)
(* the flag `jitter`.  Timestamps are in milliseconds.                     *)
(*                                                                         *)
(* Numbers: progress and speeds are kept in thousandths of a cell, so      *)
(* BASE_SPEED 0.05 is 50 and arrival (progress >= 1.0) is >= 1000; the     *)
(* two speed modifiers are kept in tenths (0.4 is 4, 1.5 is 15).  With one *)
(* speed throughout a move this gives the tick counts of the IEEE doubles  *)
(* of the source: 20 (idle), 14 (evacuating), 50 (flooded), 34 (both).     *)
(*                                                                         *)
(* random() is frac(sin(seedVal++) * 10000): the model keeps the counter   *)
(* seedVal and lets the value drawn be any value of the range; where two   *)
(* engines are compared the values are those the source computes.          *)
(***************************************************************************)
EXTENDS Integers, Sequences, FiniteSets, Bags, TLC

VARIABLES
    config,       \* [gridCols, gridRows, cellSize, seed]
    grid,         \* grid[y][x] = [isWall, isFire, isFlooded, isSafeZone]; <<>> before init()
    agents,       \* sequence of agent records, in spawn order
    stats,        \* [activeAgents, casualties, evacuated, fps, timeElapsed, evacuationHistory]
    showHeatmap,  \* presentation flag toggled by the heatmap command
    seedVal,      \* state of the seeded generator
    budget,       \* what the run may still do: [calls, ticks, draws, agents, ids]
    lastOp,       \* the operation that produced the current state
    operand,      \* what the host passed to it: [word, count, x, y]
    emitted,      \* the notifications onLog received during that operation, in order
    reported,     \* bag of the death and evacuation notifications received since init()
    isRunning,    \* the public flag the loop tests
    frameCount,   \* frames in which the loop ran the update
    timers,       \* [lastTime, evacHistoryTimer]
    frame,        \* the latest loop call: [time: its timestamp, requests: frames requested,
                  \* published: the stats snapshots onStatsUpdate received]
    tape          \* [run, log]: the steps of a first engine, kept for a second one to repeat

vars == <<config, grid, agents, stats, showHeatmap, seedVal, budget, lastOp, operand,
          emitted, reported, isRunning, frameCount, timers, frame, tape>>

\* what only loop() and the host's writes to isRunning change
engineClock == <<isRunning, frameCount, timers, frame>>

----------------------------------------------------------------------------
(* Bounds of the model *)

\* grid size of the model (the constructor's default is 24 x 16)
GridCols == 5
GridRows == 5
\* most agents ever held by the collection
MaxAgents == 2
\* most host calls (commands, clicks) and most update passes in a run
MaxCmds == 3
MaxTicks == 3
\* a long run: host calls, and random targets taken by wandering agents
RunCmds == 1
RunDraws == 1
\* pathfinding on its own: grid size, and most cells that are wall or fire
PathCols == 3
PathRows == 3
MaxBlocked == 2
\* agent ids are drawn from 0..MaxId (the source draws from 0..99999)
MaxId == 0
\* neighbours on their own: grids of 2 x 2 up to MaxDim x MaxDim cells
MaxDim == 4
\* frames: most loop calls of a run, and most writes of the host to isRunning
MaxFrames == 4
MaxSwitches == 2
\* seeds the host configures: DefaultSeed .. DefaultSeed + MaxSeedShift
MaxSeedShift == 2

----------------------------------------------------------------------------
(* Program constants *)

\* constructor: seed 123, cellSize 32, gridCols 24, gridRows 16
DefaultSeed == 123
CellSize == 32
DefaultCols == 24
DefaultRows == 16
\* constants.ts, in thousandths of a cell per tick and in tenths
BASE_SPEED == 50
FLOOD_SPEED_MODIFIER == 4
PANIC_SPEED_MODIFIER == 15
\* progress >= 1.0
Arrived == 1000
\* triggerEvacuate: const sx = 2, sy = 2
SafeX == 2
SafeY == 2
\* targetGridX: number | null
NULL == -1
\* evacuationHistory: new Array(60).fill(0); fps: 60
HistoryLength == 60
InitialFps == 60
\* loop: deltaTime || 16, evacHistoryTimer > 1000, frameCount % 20, 1000 / deltaTime
DefaultDelta == 16
HistoryPeriod == 1000
FpsEvery == 20
Second == 1000
\* visual positions are in thousandths of a cell
Fine == Arrived

IDLE == "IDLE"
EVACUATING == "EVACUATING"
DEAD == "DEAD"
EVACUATED == "EVACUATED"

Terminal(a) == a.state = DEAD \/ a.state = EVACUATED

Cols == 0 .. (config.gridCols - 1)
Rows == 0 .. (config.gridRows - 1)
Cells == [x : Cols, y : Rows]
Coord(cx, cy) == [x |-> cx, y |-> cy]

----------------------------------------------------------------------------
(* RNG *)

\* the values Math.floor(random() * (max - min + 1)) + min can take, random() in [0,1)
randomInt(min, max) == IF max >= min THEN min .. max ELSE (max + 1) .. min

\* the values Math.floor(random() * 100000) can take, cut to the id range of the run
randomId == 0 .. budget.ids

----------------------------------------------------------------------------
(* Grid *)

ClearNode == [isWall |-> FALSE, isFire |-> FALSE, isFlooded |-> FALSE, isSafeZone |-> FALSE]

generateGrid == [y \in Rows |-> [x \in Cols |-> ClearNode]]

Node(c) == grid[c.y][c.x]

\* (mutant) the neighbours clockwise: up, right, down, left
getNeighbors_clockwise(x, y) ==
    (IF y > 0 THEN <<Coord(x, y - 1)>> ELSE <<>>)
    \o (IF x < config.gridCols - 1 THEN <<Coord(x + 1, y)>> ELSE <<>>)
    \o (IF y < config.gridRows - 1 THEN <<Coord(x, y + 1)>> ELSE <<>>)
    \o (IF x > 0 THEN <<Coord(x - 1, y)>> ELSE <<>>)

\* up, down, left, right, the absent ones skipped
getNeighbors(x, y) ==
    (IF y > 0 THEN <<Coord(x, y - 1)>> ELSE <<>>)
    \o (IF y < config.gridRows - 1 THEN <<Coord(x, y + 1)>> ELSE <<>>)
    \o (IF x > 0 THEN <<Coord(x - 1, y)>> ELSE <<>>)
    \o (IF x < config.gridCols - 1 THEN <<Coord(x + 1, y)>> ELSE <<>>)

\* a Coordinates | null that is null
NoCoord == [x |-> NULL, y |-> NULL]

\* first safe-zone cell in row-major order, or null
findSafeZone ==
    LET safe == {c \in Cells : Node(c).isSafeZone}
    IN IF safe = {} THEN NoCoord
       ELSE CHOOSE c \in safe :
              \A d \in safe : c.y < d.y \/ (c.y = d.y /\ c.x <= d.x)

----------------------------------------------------------------------------
(* Pathfinding (BFS) *)

\* (mutant) the search walks through fire
Passable_ignoring_fire(n) == ~Node(n).isWall

Passable(n) == ~Node(n).isWall /\ ~Node(n).isFire

\* (mutant) neighbours are put at the head of the queue: a depth-first search
RECURSIVE visitNeighbors_lifo(_, _, _)
visitNeighbors_lifo(ns, current, st) ==
    IF ns = <<>> THEN st
    ELSE LET n == Head(ns)
         IN IF n \notin st.visited /\ Passable(n)
            THEN visitNeighbors_lifo(Tail(ns), current,
                     [queue    |-> <<n>> \o st.queue,
                      visited  |-> st.visited \cup {n},
                      cameFrom |-> (n :> current) @@ st.cameFrom])
            ELSE visitNeighbors_lifo(Tail(ns), current, st)

\* the for loop over the neighbors of current: st = [queue, visited, cameFrom]
RECURSIVE visitNeighbors(_, _, _)
visitNeighbors(ns, current, st) ==
    IF ns = <<>> THEN st
    ELSE LET n == Head(ns)
         IN IF n \notin st.visited /\ Passable(n)
            THEN visitNeighbors(Tail(ns), current,
                     [queue    |-> Append(st.queue, n),
                      visited  |-> st.visited \cup {n},
                      cameFrom |-> (n :> current) @@ st.cameFrom])
            ELSE visitNeighbors(Tail(ns), current, st)

\* up to n iterations of the while loop over the queue, ending early with the
\* queue empty or with endNode at its head (each state of the loop is bound as
\* one value, `next`, before the loop goes on)
RECURSIVE iterate(_, _, _)
iterate(n, st, endNode) ==
    IF n = 0 \/ st.queue = <<>> \/ Head(st.queue) = endNode
    THEN st
    ELSE LET current == Head(st.queue)
             rest == [st EXCEPT !.queue = Tail(st.queue)]
         IN CHOOSE r \in {iterate(n - 1, next, endNode) :
                             next \in {visitNeighbors(getNeighbors(current.x, current.y),
                                                      current, rest)}} : TRUE

\* the while loop over the queue: [found, current, cameFrom] when it ends; the
\* iterations are taken in rounds of the length of the queue
RECURSIVE bfs(_, _)
bfs(st, endNode) ==
    IF st.queue = <<>>
    THEN [found |-> FALSE, current |-> endNode, cameFrom |-> st.cameFrom]
    ELSE IF Head(st.queue) = endNode
    THEN [found |-> TRUE, current |-> Head(st.queue), cameFrom |-> st.cameFrom]
    ELSE CHOOSE r \in {bfs(next, endNode) :
                          next \in {iterate(Len(st.queue), st, endNode)}} : TRUE

\* walk cameFrom back from curr to startNode, unshifting each cell
RECURSIVE reconstruct(_, _, _, _)
reconstruct(curr, startNode, cameFrom, path) ==
    IF curr = startNode THEN path
    ELSE IF curr \notin DOMAIN cameFrom THEN <<curr>> \o path
    ELSE reconstruct(cameFrom[curr], startNode, cameFrom, <<curr>> \o path)

\* the agent after calculatePath(agent, target); target is a cell or null
calculatePath(agent, target) ==
    IF target = NoCoord THEN agent
    ELSE LET startNode == Coord(agent.gridX, agent.gridY)
             r == bfs([queue    |-> <<startNode>>,
                       visited  |-> {startNode},
                       cameFrom |-> [c \in {} |-> c]], target)
         IN IF r.found
            THEN [agent EXCEPT !.path = reconstruct(r.current, startNode, r.cameFrom, <<>>)]
            ELSE agent

----------------------------------------------------------------------------
(* Budgets of a run: calls (host calls), ticks (update passes, Unlimited for no   *)
(* limit), draws (random targets taken by wandering agents), agents (size of the  *)
(* collection), ids (largest agent id drawn)                                      *)

Unlimited == 0 - 1

CanCall == budget.calls > 0
CanTick == budget.ticks # 0
called == [budget EXCEPT !.calls = budget.calls - 1]
ticked(draws) ==
    [budget EXCEPT !.ticks = IF budget.ticks > 0 THEN budget.ticks - 1 ELSE budget.ticks,
                   !.draws = budget.draws - draws]

ActiveCount(as) == Cardinality({i \in DOMAIN as : ~Terminal(as[i])})

----------------------------------------------------------------------------
(* Notifications: onLog(msg, type), the message kept as the event it words and    *)
(* what it is about (an agent id, a count, or nothing)                            *)

note(category, event, about) == [category |-> category, event |-> event, about |-> about]

AgentEvents == {"terminated", "evacuated"}

\* the death and evacuation notifications among `notes`, as a bag
heard(notes) ==
    LET told == {notes[k] : k \in {j \in DOMAIN notes : notes[j].event \in AgentEvents}}
    IN [n \in told |-> Cardinality({k \in DOMAIN notes : notes[k] = n})]

\* the callback receives `notes`, one call each
onLog(notes) ==
    /\ emitted' = notes
    /\ reported' = reported (+) heard(notes)

\* the operand of a host call: the command word, the count of spawn, the pixel of click
NoOperand == [word |-> "", count |-> NULL, x |-> NULL, y |-> NULL]
command(word) == [NoOperand EXCEPT !.word = word]

\* nothing kept: the run of a single engine
NoTape == [run |-> 1, log |-> <<>>]

freshStats ==
    [activeAgents |-> 0, casualties |-> 0, evacuated |-> 0,
     fps |-> InitialFps, timeElapsed |-> 0,
     evacuationHistory |-> [k \in 1 .. HistoryLength |-> 0]]

----------------------------------------------------------------------------
(* Spawning *)

newAgent(gx, gy, id) ==
    [id |-> id, x |-> gx * Fine, y |-> gy * Fine, jitter |-> FALSE,
     gridX |-> gx, gridY |-> gy,
     targetGridX |-> NULL, targetGridY |-> NULL,
     state |-> IDLE, path |-> <<>>, progress |-> 0]

\* (mutant) the cells are drawn up to the far edge and one beyond
spawnCells_beyond_edge == [x : randomInt(1, config.gridCols), y : randomInt(1, config.gridRows)]

\* the agents one spawn of `count` can create: three draws each (gx, gy, id)
spawnCells == [x : randomInt(1, config.gridCols - 2), y : randomInt(1, config.gridRows - 2)]

spawned(count) ==
    {[i \in 1 .. count |-> newAgent(f[i][1].x, f[i][1].y, f[i][2])] :
        f \in [1 .. count -> spawnCells \X randomId]}

\* (mutant) the spawn replaces the collection
spawnAgents_resetting(before, count) ==
    /\ Len(before) + count <= budget.agents
    /\ \E new \in spawned(Len(before) + count) :
          /\ agents' = new
          /\ stats' = [stats EXCEPT !.activeAgents = ActiveCount(new)]
    /\ seedVal' = seedVal + 3 * count

\* spawnAgents(count) on the collection `before`
spawnAgents(before, count) ==
    /\ Len(before) + count <= budget.agents
    /\ \E new \in spawned(count) :
          /\ agents' = before \o new
          /\ stats' = [stats EXCEPT !.activeAgents = ActiveCount(before \o new)]
    /\ seedVal' = seedVal + 3 * count

\* the engine as the host's effect leaves it (constructed, then init(agentCount)
\* called), with the budget b of the run
Start(b) ==
    /\ config = [gridCols |-> GridCols, gridRows |-> GridRows,
                 cellSize |-> CellSize, seed |-> DefaultSeed]
    /\ grid = generateGrid
    /\ budget = b
    /\ \E agentCount \in 0 .. b.agents :
          /\ agents \in spawned(agentCount)
          /\ stats = [freshStats EXCEPT !.activeAgents = agentCount]
          /\ seedVal = DefaultSeed + 3 * agentCount
    /\ showHeatmap = FALSE
    /\ lastOp = "init"
    /\ operand = NoOperand
    /\ emitted = <<note("info", "online", NULL)>>
    /\ reported = EmptyBag
    /\ isRunning = TRUE
    /\ frameCount = 0
    /\ timers = [lastTime |-> 0, evacHistoryTimer |-> 0]
    /\ frame = [time |-> 0, requests |-> 0, published |-> <<>>]
    /\ tape = NoTape

\* a run of one agent fewer, or of one call and one pass fewer with all agents
Solo == [calls |-> MaxCmds, ticks |-> MaxTicks,
         draws |-> MaxTicks * MaxAgents, agents |-> MaxAgents - 1, ids |-> MaxId]
Pair == [calls |-> MaxCmds - 1, ticks |-> MaxTicks - 1,
         draws |-> MaxTicks * MaxAgents, agents |-> MaxAgents, ids |-> MaxId]

Init == Start(Solo) \/ Start(Pair)

cmdSpawn ==
    /\ CanCall
    /\ \E count \in 1 .. budget.agents :
          /\ spawnAgents(agents, count)
          /\ onLog(<<note("info", "spawned", count)>>)
          /\ operand' = [command("spawn") EXCEPT !.count = count]
    /\ budget' = called
    /\ lastOp' = "spawn"
    /\ UNCHANGED <<config, grid, showHeatmap>>
    /\ UNCHANGED <<engineClock, tape>>

----------------------------------------------------------------------------
(* The update pass *)

moveSpeed(agent) ==
    (BASE_SPEED
       * (IF grid[agent.gridY][agent.gridX].isFlooded THEN FLOOD_SPEED_MODIFIER ELSE 10)
       * (IF agent.state = EVACUATING THEN PANIC_SPEED_MODIFIER ELSE 10)) \div 100

\* the agent is past the hazard checks of this pass
Moves(agent) ==
    /\ ~Terminal(agent)
    /\ ~grid[agent.gridY][agent.gridX].isFire
    /\ ~grid[agent.gridY][agent.gridX].isSafeZone

\* the agent takes a random neighbour as its target in this pass
Wanders(agent) ==
    /\ Moves(agent)
    /\ agent.targetGridX = NULL
    /\ agent.path = <<>>
    /\ agent.state # EVACUATING
    /\ Len(getNeighbors(agent.gridX, agent.gridY)) > 0

\* (mutant) the next waypoint is taken as the target but never removed from the path
chooseTarget_without_shift(agent, pick) ==
    IF agent.targetGridX # NULL THEN agent
    ELSE IF Len(agent.path) > 0
    THEN [agent EXCEPT !.targetGridX = Head(agent.path).x,
                       !.targetGridY = Head(agent.path).y]
    ELSE IF agent.state = EVACUATING
    THEN calculatePath(agent, findSafeZone)
    ELSE LET neighbors == getNeighbors(agent.gridX, agent.gridY)
         IN IF Len(neighbors) > 0
            THEN [agent EXCEPT !.targetGridX = neighbors[pick + 1].x,
                               !.targetGridY = neighbors[pick + 1].y]
            ELSE agent

\* movement logic: an agent with no target takes one (pick: the index drawn for a wanderer)
\* (mutant) an evacuating agent without a path waits and never recalculates
chooseTarget_without_retry(agent, pick) ==
    IF agent.targetGridX # NULL THEN agent
    ELSE IF Len(agent.path) > 0
    THEN [agent EXCEPT !.targetGridX = Head(agent.path).x,
                       !.targetGridY = Head(agent.path).y,
                       !.path = Tail(agent.path)]
    ELSE IF agent.state = EVACUATING
    THEN agent
    ELSE LET neighbors == getNeighbors(agent.gridX, agent.gridY)
         IN IF Len(neighbors) > 0
            THEN [agent EXCEPT !.targetGridX = neighbors[pick + 1].x,
                               !.targetGridY = neighbors[pick + 1].y]
            ELSE agent

chooseTarget(agent, pick) ==
    IF agent.targetGridX # NULL THEN agent
    ELSE IF Len(agent.path) > 0
    THEN [agent EXCEPT !.targetGridX = Head(agent.path).x,
                       !.targetGridY = Head(agent.path).y,
                       !.path = Tail(agent.path)]
    ELSE IF agent.state = EVACUATING
    THEN calculatePath(agent, findSafeZone)
    ELSE LET neighbors == getNeighbors(agent.gridX, agent.gridY)
         IN IF Len(neighbors) > 0
            THEN [agent EXCEPT !.targetGridX = neighbors[pick + 1].x,
                               !.targetGridY = neighbors[pick + 1].y]
            ELSE agent

\* (mutant) arrival moves the logical cell but leaves the interpolated visual position
advance_keeping_residue(agent, speed) ==
    IF agent.targetGridX # NULL /\ agent.targetGridY # NULL
    THEN LET progress == agent.progress + speed
             moved == [agent EXCEPT !.progress = progress,
                                    !.x = agent.gridX * Fine
                                            + (agent.targetGridX - agent.gridX) * progress,
                                    !.y = agent.gridY * Fine
                                            + (agent.targetGridY - agent.gridY) * progress,
                                    !.jitter = TRUE]
         IN IF progress >= Arrived
            THEN [moved EXCEPT !.gridX = agent.targetGridX,
                               !.gridY = agent.targetGridY,
                               !.progress = 0,
                               !.targetGridX = NULL,
                               !.targetGridY = NULL]
            ELSE moved
    ELSE agent

\* interpolate motion and arrival; speed is the speed computed before the target was taken
advance(agent, speed) ==
    IF agent.targetGridX # NULL /\ agent.targetGridY # NULL
    THEN LET progress == agent.progress + speed
         IN IF progress >= Arrived
            THEN [agent EXCEPT !.gridX = agent.targetGridX,
                               !.gridY = agent.targetGridY,
                               !.x = agent.targetGridX * Fine,
                               !.y = agent.targetGridY * Fine,
                               !.jitter = FALSE,
                               !.progress = 0,
                               !.targetGridX = NULL,
                               !.targetGridY = NULL]
            ELSE [agent EXCEPT !.progress = progress,
                               !.x = agent.gridX * Fine
                                       + (agent.targetGridX - agent.gridX) * progress,
                               !.y = agent.gridY * Fine
                                       + (agent.targetGridY - agent.gridY) * progress,
                               !.jitter = TRUE]
    ELSE agent

\* (mutant) the hazard checks are made only for an agent that is between moves
updateAgent_checks_at_rest(agent, pick) ==
    IF Terminal(agent) THEN agent
    ELSE IF agent.targetGridX = NULL /\ grid[agent.gridY][agent.gridX].isFire
    THEN [agent EXCEPT !.state = DEAD]
    ELSE IF agent.targetGridX = NULL /\ grid[agent.gridY][agent.gridX].isSafeZone
    THEN [agent EXCEPT !.state = EVACUATED]
    ELSE advance(chooseTarget(agent, pick), moveSpeed(agent))

\* (mutant) the safe-zone check is made before the fire check
updateAgent_safe_first(agent, pick) ==
    IF Terminal(agent) THEN agent
    ELSE IF grid[agent.gridY][agent.gridX].isSafeZone
    THEN [agent EXCEPT !.state = EVACUATED]
    ELSE IF grid[agent.gridY][agent.gridX].isFire
    THEN [agent EXCEPT !.state = DEAD]
    ELSE advance(chooseTarget(agent, pick), moveSpeed(agent))

\* the body of the for loop of update() for one agent
updateAgent(agent, pick) ==
    IF Terminal(agent) THEN agent
    ELSE IF grid[agent.gridY][agent.gridX].isFire
    THEN [agent EXCEPT !.state = DEAD]
    ELSE IF grid[agent.gridY][agent.gridX].isSafeZone
    THEN [agent EXCEPT !.state = EVACUATED]
    ELSE advance(chooseTarget(agent, pick), moveSpeed(agent))

Dies(agent) == ~Terminal(agent) /\ grid[agent.gridY][agent.gridX].isFire

Escapes(agent) ==
    /\ ~Terminal(agent)
    /\ ~grid[agent.gridY][agent.gridX].isFire
    /\ grid[agent.gridY][agent.gridX].isSafeZone

Count(P(_)) == Cardinality({i \in DOMAIN agents : P(agents[i])})

\* (mutant) every agent standing on fire is counted as a casualty, dead already or not
updateStatsOf_recounting(s) ==
    [s EXCEPT !.activeAgents = ActiveCount(agents),
              !.casualties   = s.casualties +
                                 Cardinality({i \in DOMAIN agents :
                                                grid[agents[i].gridY][agents[i].gridX].isFire}),
              !.evacuated    = s.evacuated + Count(Escapes)]

\* stats s after the pass: active counts the agents that entered the loop body
updateStatsOf(s) ==
    [s EXCEPT !.activeAgents = ActiveCount(agents),
              !.casualties   = s.casualties + Count(Dies),
              !.evacuated    = s.evacuated + Count(Escapes)]

updateStats == updateStatsOf(stats)

\* (mutant) the pass notifies for every agent standing on fire or on the safe zone
agentNote_every_pass(agent) ==
    IF grid[agent.gridY][agent.gridX].isFire
    THEN <<note("danger", "terminated", agent.id)>>
    ELSE IF grid[agent.gridY][agent.gridX].isSafeZone
    THEN <<note("success", "evacuated", agent.id)>>
    ELSE <<>>

\* the notification the pass emits for one agent
agentNote(agent) ==
    IF Dies(agent) THEN <<note("danger", "terminated", agent.id)>>
    ELSE IF Escapes(agent) THEN <<note("success", "evacuated", agent.id)>>
    ELSE <<>>

\* the notifications of a pass, in the order of the collection
RECURSIVE notesFrom(_)
notesFrom(i) ==
    IF i > Len(agents) THEN <<>> ELSE agentNote(agents[i]) \o notesFrom(i + 1)

updateNotes == notesFrom(1)

\* update() on the stats s of the frame
runUpdate(s) ==
    /\ \E picks \in [DOMAIN agents -> 0 .. 3] :
          /\ \A i \in DOMAIN agents :
                IF Wanders(agents[i])
                THEN picks[i] \in randomInt(0, Len(getNeighbors(agents[i].gridX, agents[i].gridY)) - 1)
                ELSE picks[i] = 0
          /\ agents' = [i \in DOMAIN agents |-> updateAgent(agents[i], picks[i])]
    /\ stats' = updateStatsOf(s)
    /\ seedVal' = seedVal + Count(Wanders)
    /\ onLog(updateNotes)

update ==
    /\ CanTick
    /\ Count(Wanders) <= budget.draws
    /\ runUpdate(stats)
    /\ lastOp' = "update"
    /\ operand' = NoOperand
    /\ budget' = ticked(Count(Wanders))
    /\ UNCHANGED <<config, grid, showHeatmap>>
    /\ UNCHANGED <<engineClock, tape>>

----------------------------------------------------------------------------
(* Commands *)

\* the cells of the 3x3 block whose corner is (rx, ry)
fireBlock(rx, ry) == {c \in [x : rx .. rx + 2, y : ry .. ry + 2] : TRUE}

\* the grid with the block at (rx, ry) on fire
ignited(rx, ry) ==
    [y \in Rows |-> [x \in Cols |->
        IF Coord(x, y) \in fireBlock(rx, ry)
        THEN [grid[y][x] EXCEPT !.isFire = TRUE]
        ELSE grid[y][x]]]

triggerFire ==
    /\ \E rx \in randomInt(2, config.gridCols - 4), ry \in randomInt(2, config.gridRows - 4) :
          /\ fireBlock(rx, ry) \subseteq Cells
          /\ grid' = ignited(rx, ry)
    /\ seedVal' = seedVal + 2
    /\ onLog(<<note("danger", "fire", NULL)>>)
    /\ UNCHANGED <<agents, stats>>

triggerFlood ==
    /\ grid' = [y \in Rows |-> [x \in Cols |->
                  IF y >= config.gridRows \div 2
                  THEN [grid[y][x] EXCEPT !.isFlooded = TRUE]
                  ELSE grid[y][x]]]
    /\ onLog(<<note("alert", "flood", NULL)>>)
    /\ UNCHANGED <<agents, stats, seedVal>>

safeBlock == {Coord(SafeX, SafeY), Coord(SafeX, SafeY + 1),
              Coord(SafeX + 1, SafeY), Coord(SafeX + 1, SafeY + 1)}

\* the grid once the safe zone is marked
withSafeZone ==
    [y \in Rows |-> [x \in Cols |->
        IF Coord(x, y) \in safeBlock
        THEN [grid[y][x] EXCEPT !.isSafeZone = TRUE]
        ELSE grid[y][x]]]

\* (mutant) the broadcast alerts every agent, terminal or not
alert_everyone(a) ==
    calculatePath([a EXCEPT !.state = EVACUATING], Coord(SafeX, SafeY))

\* (mutant) the broadcast computes no path
alert_without_path(a) ==
    IF ~Terminal(a) THEN [a EXCEPT !.state = EVACUATING] ELSE a

\* an agent alerted by the broadcast (paths avoid wall and fire, which the broadcast leaves alone)
alert(a) ==
    IF ~Terminal(a)
    THEN calculatePath([a EXCEPT !.state = EVACUATING], Coord(SafeX, SafeY))
    ELSE a

triggerEvacuate ==
    /\ safeBlock \subseteq Cells
    /\ grid' = withSafeZone
    /\ agents' = [i \in DOMAIN agents |-> alert(agents[i])]
    /\ onLog(<<note("info", "evacuate", NULL)>>)
    /\ UNCHANGED <<stats, seedVal>>

\* (mutant) clear keeps the pending paths
calm_keeping_path(a) ==
    [a EXCEPT !.state = IF a.state = EVACUATING THEN IDLE ELSE a.state]

calm(a) ==
    [a EXCEPT !.state = IF a.state = EVACUATING THEN IDLE ELSE a.state,
              !.path = <<>>]

clearHazards ==
    /\ grid' = [y \in Rows |-> [x \in Cols |->
                  [grid[y][x] EXCEPT !.isFire = FALSE, !.isFlooded = FALSE,
                                     !.isSafeZone = FALSE]]]
    /\ agents' = [i \in DOMAIN agents |-> calm(agents[i])]
    /\ onLog(<<note("success", "clear", NULL)>>)
    /\ UNCHANGED <<stats, seedVal>>

cmdFire ==
    /\ CanCall
    /\ triggerFire
    /\ budget' = called
    /\ lastOp' = "fire"
    /\ operand' = command("fire")
    /\ UNCHANGED <<config, showHeatmap>>
    /\ UNCHANGED <<engineClock, tape>>

cmdFlood ==
    /\ CanCall
    /\ triggerFlood
    /\ budget' = called
    /\ lastOp' = "flood"
    /\ operand' = command("flood")
    /\ UNCHANGED <<config, showHeatmap>>
    /\ UNCHANGED <<engineClock, tape>>

cmdEvacuate ==
    /\ CanCall
    /\ triggerEvacuate
    /\ budget' = called
    /\ lastOp' = "evacuate"
    /\ operand' = command("evacuate")
    /\ UNCHANGED <<config, showHeatmap>>
    /\ UNCHANGED <<engineClock, tape>>

cmdClear ==
    /\ CanCall
    /\ clearHazards
    /\ budget' = called
    /\ lastOp' = "clear"
    /\ operand' = command("clear")
    /\ UNCHANGED <<config, showHeatmap>>
    /\ UNCHANGED <<engineClock, tape>>

cmdHeatmap ==
    /\ CanCall
    /\ showHeatmap' = ~showHeatmap
    /\ budget' = called
    /\ onLog(<<note("info", "heatmap", NULL)>>)
    /\ lastOp' = "heatmap"
    /\ operand' = command("heatmap")
    /\ UNCHANGED <<config, grid, agents, stats, seedVal>>
    /\ UNCHANGED <<engineClock, tape>>

\* the pixel coordinates the host clicks at: cells 1 and 2, and right of (below) the grid
ClickPixels == {40, 70, 200}

\* (mutant) a click locks the cell, locked or not
toggleWall_locking(gx, gy) ==
    [grid EXCEPT ![gy][gx].isWall = TRUE]

toggleWall(gx, gy) ==
    [grid EXCEPT ![gy][gx].isWall = ~grid[gy][gx].isWall]

click ==
    /\ CanCall
    /\ \E px \in ClickPixels, py \in ClickPixels :
          LET gx == px \div config.cellSize
              gy == py \div config.cellSize
          IN /\ IF gx >= 0 /\ gx < config.gridCols /\ gy >= 0 /\ gy < config.gridRows
                THEN /\ grid' = toggleWall(gx, gy)
                     /\ onLog(<<note("info", "override", Coord(gx, gy))>>)
                ELSE /\ grid' = grid
                     /\ onLog(<<>>)
             /\ operand' = [NoOperand EXCEPT !.x = px, !.y = py]
    /\ budget' = called
    /\ lastOp' = "click"
    /\ UNCHANGED <<config, agents, stats, showHeatmap, seedVal>>
    /\ UNCHANGED <<engineClock, tape>>

\* the words executeCommand knows, and the unknown ones the host sends
CommandWords == {"fire", "flood", "evacuate", "clear", "spawn", "heatmap"}
UnknownWords == {"help"}

\* (mutant) an unknown command is dropped without a word
cmdUnknown_silent ==
    /\ CanCall
    /\ \E word \in UnknownWords \ CommandWords :
          /\ onLog(<<>>)
          /\ operand' = command(word)
    /\ budget' = called
    /\ lastOp' = "unknown"
    /\ UNCHANGED <<config, grid, agents, stats, showHeatmap, seedVal>>
    /\ UNCHANGED <<engineClock, tape>>

\* the default branch of executeCommand
cmdUnknown ==
    /\ CanCall
    /\ \E word \in UnknownWords \ CommandWords :
          /\ onLog(<<note("alert", "unknown", NULL)>>)
          /\ operand' = command(word)
    /\ budget' = called
    /\ lastOp' = "unknown"
    /\ UNCHANGED <<config, grid, agents, stats, showHeatmap, seedVal>>
    /\ UNCHANGED <<engineClock, tape>>

Next ==
    \/ update
    \/ cmdSpawn
    \/ cmdFire
    \/ cmdFlood
    \/ cmdEvacuate
    \/ cmdClear
    \/ cmdHeatmap
    \/ cmdUnknown
    \/ click

Spec == Init /\ [][Next]_vars

----------------------------------------------------------------------------
(* A long run: evacuate as the only command, no limit on passes *)

Run == [calls |-> RunCmds, ticks |-> Unlimited, draws |-> RunDraws, agents |-> MaxAgents,
        ids |-> MaxId]

InitRun == Start(Run)

NextRun ==
    \/ update
    \/ cmdEvacuate

\* the host's frame callback runs the loop, and with it update(), again and again
SpecRun == InitRun /\ [][NextRun]_vars /\ WF_vars(update)

----------------------------------------------------------------------------
(* A long run with walls: the evacuate broadcast and wall toggles, no limit on       *)
(* passes; no agent wanders, so the passes begin with the broadcast                 *)

Retry == [calls |-> MaxCmds, ticks |-> Unlimited, draws |-> 0,
          agents |-> MaxAgents - 1, ids |-> MaxId]

InitRetry == Start(Retry)

NextRetry ==
    \/ update
    \/ cmdEvacuate
    \/ click

SpecRetry == InitRetry /\ [][NextRetry]_vars /\ WF_vars(update)

----------------------------------------------------------------------------
(* Pathfinding on its own: calculatePath applied to one agent on a small grid with  *)
(* any few wall and fire cells, the lower half flooded as triggerFlood leaves it,   *)
(* and any one cell marked safe zone as the destination findSafeZone() returns      *)

InitPath ==
    /\ config = [gridCols |-> PathCols, gridRows |-> PathRows,
                 cellSize |-> CellSize, seed |-> DefaultSeed]
    /\ \E blocked \in {B \in SUBSET Cells : Cardinality(B) <= MaxBlocked} :
       \E fire \in SUBSET blocked :
       \E dest \in Cells :
          grid = [y \in Rows |-> [x \in Cols |->
                    [isWall     |-> Coord(x, y) \in blocked \ fire,
                     isFire     |-> Coord(x, y) \in fire,
                     isFlooded  |-> y >= config.gridRows \div 2,
                     isSafeZone |-> Coord(x, y) = dest]]]
    /\ \E origin \in Cells :
          agents = <<[newAgent(origin.x, origin.y, 0) EXCEPT !.state = EVACUATING]>>
    /\ stats = [freshStats EXCEPT !.activeAgents = 1]
    /\ seedVal = DefaultSeed + 3
    /\ showHeatmap = FALSE
    /\ budget = [calls |-> 0, ticks |-> 0, draws |-> 0, agents |-> 1, ids |-> MaxId]
    /\ lastOp = "evacuate"
    /\ operand = command("evacuate")
    /\ emitted = <<note("info", "evacuate", NULL)>>
    /\ reported = EmptyBag
    /\ isRunning = TRUE
    /\ frameCount = 0
    /\ timers = [lastTime |-> 0, evacHistoryTimer |-> 0]
    /\ frame = [time |-> 0, requests |-> 0, published |-> <<>>]
    /\ tape = NoTape

\* the fallback of update(): an evacuating agent with no path recalculates it
recalc ==
    /\ lastOp # "calculatePath"
    /\ agents' = [i \in DOMAIN agents |-> calculatePath(agents[i], findSafeZone)]
    /\ lastOp' = "calculatePath"
    /\ UNCHANGED <<config, grid, stats, showHeatmap, seedVal, budget, operand,
                   emitted, reported>>
    /\ UNCHANGED <<engineClock, tape>>

NextPath == recalc

SpecPath == InitPath /\ [][NextPath]_vars

----------------------------------------------------------------------------
(* Frames: the host calls loop(0) once and every call requests the next frame; the  *)
(* host may write isRunning between frames                                          *)

\* milliseconds between two frames: a frame of a 60 Hz display, and a long stall
FrameGaps == {16, 600}

\* (mutant) a paused frame leaves lastTime alone
pausedFrame_keeping_lastTime(timestamp) ==
    /\ onLog(<<>>)
    /\ UNCHANGED <<timers, agents, stats, seedVal, frameCount>>
    /\ budget' = ticked(0)

\* loop() while isRunning is false
pausedFrame(timestamp) ==
    /\ timers' = [timers EXCEPT !.lastTime = timestamp]
    /\ onLog(<<>>)
    /\ UNCHANGED <<agents, stats, seedVal, frameCount>>
    /\ budget' = ticked(0)

\* Math.round(1000 / (deltaTime || 16))
fpsOf(deltaTime) ==
    LET d == IF deltaTime = 0 THEN DefaultDelta ELSE deltaTime
    IN (2 * Second + d) \div (2 * d)

\* (mutant) the rotation appends without removing the head
framedStats_growing(deltaTime) ==
    LET sampled == IF frameCount % FpsEvery = 0
                   THEN [stats EXCEPT !.fps = fpsOf(deltaTime)]
                   ELSE stats
    IN IF timers.evacHistoryTimer + deltaTime > HistoryPeriod
       THEN [sampled EXCEPT !.timeElapsed = stats.timeElapsed + 1,
                            !.evacuationHistory =
                                 Append(stats.evacuationHistory, stats.evacuated)]
       ELSE sampled

\* the stats after the FPS calculation and the timer update of a frame
framedStats(deltaTime) ==
    LET sampled == IF frameCount % FpsEvery = 0
                   THEN [stats EXCEPT !.fps = fpsOf(deltaTime)]
                   ELSE stats
    IN IF timers.evacHistoryTimer + deltaTime > HistoryPeriod
       THEN [sampled EXCEPT !.timeElapsed = stats.timeElapsed + 1,
                            !.evacuationHistory =
                                 Append(Tail(stats.evacuationHistory), stats.evacuated)]
       ELSE sampled

\* loop() while isRunning is true
runningFrame(timestamp) ==
    LET deltaTime == timestamp - timers.lastTime
    IN /\ timers' = [lastTime |-> timestamp,
                     evacHistoryTimer |->
                         IF timers.evacHistoryTimer + deltaTime > HistoryPeriod
                         THEN 0
                         ELSE timers.evacHistoryTimer + deltaTime]
       /\ Count(Wanders) <= budget.draws
       /\ runUpdate(framedStats(deltaTime))
       /\ frameCount' = frameCount + 1
       /\ budget' = ticked(Count(Wanders))

\* the snapshots {...stats} the callback onStatsUpdate receives in a call of loop
onStatsUpdate(timestamp) ==
    IF isRunning /\ timers.evacHistoryTimer + (timestamp - timers.lastTime) > HistoryPeriod
    THEN <<framedStats(timestamp - timers.lastTime)>>
    ELSE <<>>

\* the timestamps a call of loop can carry: 0 for the host's loop(0), later ones for the frames
timestamps == IF frame.requests = 0 THEN {0} ELSE {frame.time + gap : gap \in FrameGaps}

loop ==
    /\ CanTick
    /\ \E timestamp \in timestamps :
          /\ IF ~isRunning THEN pausedFrame(timestamp) ELSE runningFrame(timestamp)
          /\ frame' = [time |-> timestamp, requests |-> 1,
                       published |-> onStatsUpdate(timestamp)]
    /\ lastOp' = "loop"
    /\ operand' = NoOperand
    /\ UNCHANGED <<config, grid, showHeatmap, isRunning, tape>>

\* the host writes the public field isRunning: false (App's cleanup), or true again
pause ==
    /\ CanCall
    /\ isRunning
    /\ isRunning' = FALSE
    /\ budget' = called
    /\ lastOp' = "pause"
    /\ operand' = NoOperand
    /\ onLog(<<>>)
    /\ UNCHANGED <<config, grid, agents, stats, showHeatmap, seedVal, frameCount, timers, frame, tape>>

resume ==
    /\ CanCall
    /\ ~isRunning
    /\ isRunning' = TRUE
    /\ budget' = called
    /\ lastOp' = "resume"
    /\ operand' = NoOperand
    /\ onLog(<<>>)
    /\ UNCHANGED <<config, grid, agents, stats, showHeatmap, seedVal, frameCount, timers, frame, tape>>

Frames == [calls |-> MaxSwitches, ticks |-> MaxFrames, draws |-> MaxFrames,
           agents |-> MaxAgents - 1, ids |-> MaxId]

InitLoop == Start(Frames)

NextLoop ==
    \/ loop
    \/ pause
    \/ resume

SpecLoop == InitLoop /\ [][NextLoop]_vars

----------------------------------------------------------------------------
(* The evacuation history: frames and stalls, the evacuate broadcast, pauses *)

History == [calls |-> MaxSwitches, ticks |-> MaxFrames + 1, draws |-> RunDraws,
            agents |-> MaxAgents - 1, ids |-> MaxId]

InitHistory == Start(History)

NextHistory ==
    \/ loop
    \/ cmdEvacuate
    \/ pause
    \/ resume

SpecHistory == InitHistory /\ [][NextHistory]_vars

----------------------------------------------------------------------------
(* Notifications: agents with ids of their own, hazards, broadcasts and passes *)

Notify == [calls |-> MaxCmds - 1, ticks |-> MaxTicks, draws |-> MaxAgents,
           agents |-> MaxAgents, ids |-> MaxId + 1]

InitNotify == Start(Notify)

NextNotify ==
    \/ update
    \/ cmdFire
    \/ cmdEvacuate
    \/ cmdClear

SpecNotify == InitNotify /\ [][NextNotify]_vars

----------------------------------------------------------------------------
(* Neighbours on their own: one idle agent standing on any cell of a clear grid of  *)
(* any size from 2 x 2, and the one pass in which it picks a neighbour              *)

Wander == [calls |-> 0, ticks |-> 1, draws |-> 1, agents |-> 1, ids |-> MaxId]

InitWander ==
    /\ \E cols \in 2 .. MaxDim, rows \in 2 .. MaxDim :
          config = [gridCols |-> cols, gridRows |-> rows,
                    cellSize |-> CellSize, seed |-> DefaultSeed]
    /\ grid = generateGrid
    /\ budget = Wander
    /\ \E c \in Cells : agents = <<newAgent(c.x, c.y, 0)>>
    /\ stats = [freshStats EXCEPT !.activeAgents = 1]
    /\ seedVal = DefaultSeed + 3
    /\ showHeatmap = FALSE
    /\ lastOp = "init"
    /\ operand = NoOperand
    /\ emitted = <<note("info", "online", NULL)>>
    /\ reported = EmptyBag
    /\ isRunning = TRUE
    /\ frameCount = 0
    /\ timers = [lastTime |-> 0, evacHistoryTimer |-> 0]
    /\ frame = [time |-> 0, requests |-> 0, published |-> <<>>]
    /\ tape = NoTape

NextWander == update

SpecWander == InitWander /\ [][NextWander]_vars

----------------------------------------------------------------------------
(* Two engines: the generator as the source computes it, a first engine whose     *)
(* steps are kept on the tape, and a second engine constructed like the first     *)
(* that is given the same steps while its frames arrive at times of their own     *)

\* a million times frac(Math.sin(s) * 10000), floored, for s = DefaultSeed, DefaultSeed + 1, ...
sineTable ==
    <<965093, 130131, 595408, 908256, 300672, 377105, 266079, 940498,
      966128, 835871, 657562, 248164, 686861, 667932, 855454, 477404,
      801312, 396594, 713653,  49928, 546391, 784061, 451620, 691731>>

\* random() is kept in millionths
Unit == Fine * Fine

\* (mutant) the generator reads the time of the latest frame as well
random_from_clock(s) ==
    sineTable[((s - DefaultSeed + frame.time) % Len(sineTable)) + 1]

\* random() when seedVal is s
random(s) == sineTable[s - DefaultSeed + 1]

\* the generator can make n more draws within the table
Tabulated(n) == seedVal >= DefaultSeed /\ seedVal - DefaultSeed + n <= Len(sineTable)

\* randomInt(min, max) when seedVal is s
seededInt(s, min, max) == (random(s) * (max - min + 1)) \div Unit + min

\* Math.floor(random() * 100000) when seedVal is s, cut to the id range of the run
seededId(s) == (random(s) * (budget.ids + 1)) \div Unit

\* the agents spawnAgents(count) creates when seedVal is s: gx, gy, id drawn in turn
seededAgents(s, count) ==
    [i \in 1 .. count |->
        newAgent(seededInt(s + 3 * (i - 1), 1, config.gridCols - 2),
                 seededInt(s + 3 * (i - 1) + 1, 1, config.gridRows - 2),
                 seededId(s + 3 * (i - 1) + 2))]

\* the neighbour the i-th agent draws in a pass: one draw per wandering agent, in order
seededPick(i) ==
    IF Wanders(agents[i])
    THEN seededInt(seedVal + Cardinality({j \in 1 .. (i - 1) : Wanders(agents[j])}),
                   0, Len(getNeighbors(agents[i].gridX, agents[i].gridY)) - 1)
    ELSE 0

Replay == [calls |-> MaxCmds - 1, ticks |-> MaxTicks, draws |-> MaxTicks * MaxAgents,
           agents |-> MaxAgents, ids |-> MaxId + 1]

\* steps the engine at hand has taken
Played == (Replay.calls - budget.calls) + (Replay.ticks - budget.ticks)

\* what two engines are compared on, and the notifications of the latest step
engineState ==
    [grid |-> grid, agents |-> agents,
     counters |-> [activeAgents |-> stats.activeAgents,
                   casualties |-> stats.casualties,
                   evacuated |-> stats.evacuated],
     showHeatmap |-> showHeatmap, seedVal |-> seedVal, frameCount |-> frameCount,
     emitted |-> emitted]

\* the first engine may step once its state is on the tape, the second while steps remain
Ready ==
    \/ tape.run = 1 /\ Len(tape.log) = Played + 1
    \/ tape.run = 2 /\ Played + 2 <= Len(tape.log)

\* the second engine is given the step the first was given
Follows ==
    tape.run = 2 =>
        /\ lastOp' = tape.log[Played + 2].op
        /\ operand' = tape.log[Played + 2].operand

seededLoop ==
    /\ Ready
    /\ Tabulated(Count(Wanders))
    /\ loop
    /\ agents' = [i \in DOMAIN agents |-> updateAgent(agents[i], seededPick(i))]
    /\ Follows

seededSpawn ==
    /\ Ready
    /\ cmdSpawn
    /\ Tabulated(3 * operand'.count)
    /\ agents' = agents \o seededAgents(seedVal, operand'.count)
    /\ Follows

seededFire ==
    /\ Ready
    /\ Tabulated(2)
    /\ cmdFire
    /\ grid' = ignited(seededInt(seedVal, 2, config.gridCols - 4),
                       seededInt(seedVal + 1, 2, config.gridRows - 4))
    /\ Follows

seededEvacuate ==
    /\ Ready
    /\ cmdEvacuate
    /\ Follows

\* the state of the first engine, the step that led to it and its time go on the tape
record ==
    /\ tape.run = 1
    /\ Len(tape.log) = Played
    /\ tape' = [tape EXCEPT !.log = Append(@, [op |-> lastOp, operand |-> operand,
                                                time |-> frame.time,
                                                state |-> engineState])]
    /\ UNCHANGED <<config, grid, agents, stats, showHeatmap, seedVal, budget, lastOp,
                   operand, emitted, reported, isRunning, frameCount, timers, frame>>

\* a second engine: constructed with the seed, the grid and the agents of the first
rewind ==
    /\ tape.run = 1
    /\ Played > 0
    /\ Len(tape.log) = Played + 1
    /\ tape' = [tape EXCEPT !.run = 2]
    /\ LET first == tape.log[1].state
       IN /\ grid' = first.grid
          /\ agents' = first.agents
          /\ stats' = [freshStats EXCEPT !.activeAgents = ActiveCount(first.agents)]
          /\ seedVal' = first.seedVal
          /\ showHeatmap' = first.showHeatmap
          /\ emitted' = first.emitted
    /\ reported' = EmptyBag
    /\ isRunning' = TRUE
    /\ frameCount' = 0
    /\ timers' = [lastTime |-> 0, evacHistoryTimer |-> 0]
    /\ frame' = [time |-> 0, requests |-> 0, published |-> <<>>]
    /\ budget' = Replay
    /\ lastOp' = "init"
    /\ operand' = NoOperand
    /\ UNCHANGED config

InitReplay ==
    /\ Start(Replay)
    /\ agents = seededAgents(DefaultSeed, Len(agents))

NextReplay ==
    \/ seededLoop
    \/ seededSpawn
    \/ seededFire
    \/ seededEvacuate
    \/ record
    \/ rewind

SpecReplay == InitReplay /\ [][NextReplay]_vars

----------------------------------------------------------------------------
(* Seeding: the engine as the constructor leaves it, the host's write to          *)
(* config.seed, init(agentCount) called any number of times, and the fire command *)
(* as a consumer of draws in between                                              *)

HostSeeds == DefaultSeed .. (DefaultSeed + MaxSeedShift)

Seeding == [calls |-> MaxCmds + 1, ticks |-> 0, draws |-> 0, agents |-> MaxAgents,
            ids |-> MaxId + 1]

\* new SimulationEngine(...): the field initialisers, the default config, srand(config.seed)
InitSeed ==
    /\ config = [gridCols |-> GridCols, gridRows |-> GridRows,
                 cellSize |-> CellSize, seed |-> DefaultSeed]
    /\ grid = <<>>
    /\ agents = <<>>
    /\ stats = freshStats
    /\ seedVal = DefaultSeed
    /\ budget = Seeding
    /\ showHeatmap = FALSE
    /\ lastOp = "new"
    /\ operand = NoOperand
    /\ emitted = <<>>
    /\ reported = EmptyBag
    /\ isRunning = TRUE
    /\ frameCount = 0
    /\ timers = [lastTime |-> 0, evacHistoryTimer |-> 0]
    /\ frame = [time |-> 0, requests |-> 0, published |-> <<>>]
    /\ tape = NoTape

\* engine.config.seed = seed
setSeed ==
    /\ CanCall
    /\ \E seed \in HostSeeds :
          /\ config' = [config EXCEPT !.seed = seed]
          /\ operand' = [NoOperand EXCEPT !.count = seed]
    /\ budget' = called
    /\ lastOp' = "setSeed"
    /\ emitted' = <<>>
    /\ UNCHANGED <<grid, agents, stats, showHeatmap, seedVal, reported>>
    /\ UNCHANGED <<engineClock, tape>>

\* init(agentCount), spawnAgents creating the agents `new`
init(agentCount, new) ==
    /\ CanCall
    /\ Len(new) = agentCount
    /\ grid' = generateGrid
    /\ agents' = new
    /\ stats' = [freshStats EXCEPT !.activeAgents = ActiveCount(new)]
    /\ seedVal' = seedVal + 3 * agentCount
    /\ operand' = [NoOperand EXCEPT !.count = agentCount]
    /\ emitted' = <<note("info", "online", NULL)>>
    /\ reported' = EmptyBag
    /\ budget' = called
    /\ lastOp' = "init"
    /\ UNCHANGED <<config, showHeatmap>>
    /\ UNCHANGED <<engineClock, tape>>

\* init(agentCount) with the draws the generator makes
seededInit ==
    /\ Tabulated(3 * budget.agents)
    /\ \E agentCount \in 0 .. budget.agents :
          init(agentCount, seededAgents(seedVal, agentCount))

\* the fire command once the grid exists
seededIgnite ==
    /\ grid # <<>>
    /\ Tabulated(2)
    /\ cmdFire
    /\ grid' = ignited(seededInt(seedVal, 2, config.gridCols - 4),
                       seededInt(seedVal + 1, 2, config.gridRows - 4))

NextSeed ==
    \/ setSeed
    \/ seededInit
    \/ seededIgnite

SpecSeed == InitSeed /\ [][NextSeed]_vars

----------------------------------------------------------------------------
(* Counting: passes, spawn, fire, the evacuate broadcast, and init() called again   *)
(* (the first init() with any draws, the later ones with the draws of the generator) *)

Counting == [calls |-> MaxCmds, ticks |-> MaxTicks - 1, draws |-> MaxAgents,
             agents |-> MaxAgents, ids |-> MaxId]

InitCount == Start(Counting)

NextCount ==
    \/ update
    \/ cmdSpawn
    \/ cmdFire
    \/ cmdEvacuate
    \/ seededInit

SpecCount == InitCount /\ [][NextCount]_vars

----------------------------------------------------------------------------
(* The grid of the constructor, 24 x 16: one agent spawned anywhere, one command   *)
(* (fire anywhere it can fall, or the evacuate broadcast) and the passes after it; *)
(* no agent wanders                                                                *)

Full == [calls |-> RunCmds, ticks |-> MaxTicks - 1, draws |-> 0,
         agents |-> MaxAgents - 1, ids |-> MaxId]

InitFull ==
    /\ config = [gridCols |-> DefaultCols, gridRows |-> DefaultRows,
                 cellSize |-> CellSize, seed |-> DefaultSeed]
    /\ grid = generateGrid
    /\ budget = Full
    /\ agents \in spawned(Full.agents)
    /\ stats = [freshStats EXCEPT !.activeAgents = Full.agents]
    /\ seedVal = DefaultSeed + 3 * Full.agents
    /\ showHeatmap = FALSE
    /\ lastOp = "init"
    /\ operand = NoOperand
    /\ emitted = <<note("info", "online", NULL)>>
    /\ reported = EmptyBag
    /\ isRunning = TRUE
    /\ frameCount = 0
    /\ timers = [lastTime |-> 0, evacHistoryTimer |-> 0]
    /\ frame = [time |-> 0, requests |-> 0, published |-> <<>>]
    /\ tape = NoTape

NextFull ==
    \/ update
    \/ cmdFire
    \/ cmdEvacuate

SpecFull == InitFull /\ [][NextFull]_vars

----------------------------------------------------------------------------
(* Vocabulary of the properties *)

AgentIds == DOMAIN agents
CellOf(a) == Coord(a.gridX, a.gridY)
SafeCell == Coord(SafeX, SafeY)
Adjacent(c, d) ==
    (c.x = d.x /\ (c.y = d.y + 1 \/ d.y = c.y + 1)) \/ (c.y = d.y /\ (c.x = d.x + 1 \/ d.x = c.x + 1))
Blocked(c) == grid[c.y][c.x].isWall \/ grid[c.y][c.x].isFire
NonTerminal(a) == a.state \in {IDLE, EVACUATING}

\* hop count of a shortest route from `from` to `to` whose cells after `from` are
\* neither wall nor fire, by growing the set of cells k hops away; -1 when there is none
RECURSIVE HopsFrom(_, _, _, _)
HopsFrom(frontier, seen, to, k) ==
    IF to \in frontier THEN k
    ELSE IF frontier = {} THEN 0 - 1
    ELSE LET next == {c \in Cells \ seen : ~Blocked(c) /\ \E d \in frontier : Adjacent(c, d)}
         IN HopsFrom(next, seen \cup next, to, k + 1)
Hops(from, to) == HopsFrom({from}, {from}, to, 0)
Reachable(from, to) == Hops(from, to) >= 0

----------------------------------------------------------------------------
(* C1: once an agent is DEAD or EVACUATED, no update pass and no command (fire,     *)
(* flood, evacuate, clear, spawn, heatmap, wall toggle) changes its state again,    *)
(* and it stays in the collection at its place.                                     *)
C1_TerminalPermanent ==
    [][\A i \in AgentIds :
          agents[i].state \in {DEAD, EVACUATED}
            => i \in DOMAIN agents' /\ agents'[i].state = agents[i].state]_vars

\* a dead agent has been through an evacuate broadcast
C1_Witness ==
    /\ lastOp = "evacuate"
    /\ \E i \in AgentIds : agents[i].state = DEAD

(* C2: a non-terminal agent whose logical cell is on fire when an update pass       *)
(* begins is DEAD when the pass ends, with position, target, progress and path as   *)
(* before, and casualties grows by one for each such agent.                         *)
C2_FireKills ==
    [][lastOp' = "update" =>
          LET burning == {i \in AgentIds :
                            NonTerminal(agents[i]) /\ grid[agents[i].gridY][agents[i].gridX].isFire}
          IN /\ \A i \in burning : agents'[i] = [agents[i] EXCEPT !.state = DEAD]
             /\ stats'.casualties = stats.casualties + Cardinality(burning)]_vars

\* an evacuating agent died in the middle of a move with waypoints pending
C2_Witness ==
    /\ lastOp = "update"
    /\ \E i \in AgentIds :
          /\ agents[i].state = DEAD
          /\ agents[i].targetGridX # NULL
          /\ agents[i].progress > 0
          /\ agents[i].path # <<>>

(* C3: right after an update pass and right after spawnAgents, stats.activeAgents   *)
(* is the number of agents whose state is neither DEAD nor EVACUATED.               *)
C3_ActiveIsNonTerminal ==
    lastOp \in {"update", "spawn"} =>
        stats.activeAgents = Cardinality({i \in AgentIds : agents[i].state \notin {DEAD, EVACUATED}})

(* C6: after an evacuate broadcast, every alerted agent from whose cell the safe    *)
(* cell (2,2) cannot be reached holds an empty pending path, whatever it held       *)
(* before.                                                                          *)
C6_UnreachableClearsPath ==
    lastOp = "evacuate" =>
        \A i \in AgentIds :
            agents[i].state = EVACUATING /\ ~Reachable(CellOf(agents[i]), SafeCell)
              => agents[i].path = <<>>

(* C8: right after the evacuate command the four cells (2,2), (3,2), (2,3), (3,3)   *)
(* are safe zone, every agent that was IDLE or EVACUATING is EVACUATING, every DEAD *)
(* or EVACUATED agent is unchanged, and every EVACUATING agent from whose cell      *)
(* (2,2) can be reached avoiding wall and fire holds a path that ends at (2,2), or  *)
(* holds none and stands on (2,2).  The broadcast moves no agent and changes no     *)
(* wall or fire flag, so reachability is that of the grid it was issued on.         *)
C8_EvacuateBroadcast ==
    [][lastOp' = "evacuate" =>
          /\ \A c \in {Coord(2, 2), Coord(3, 2), Coord(2, 3), Coord(3, 3)} :
                grid'[c.y][c.x].isSafeZone
          /\ \A c \in Cells :
                /\ grid'[c.y][c.x].isWall = grid[c.y][c.x].isWall
                /\ grid'[c.y][c.x].isFire = grid[c.y][c.x].isFire
          /\ DOMAIN agents' = DOMAIN agents
          /\ \A i \in AgentIds :
                /\ NonTerminal(agents[i]) => agents'[i].state = EVACUATING
                /\ ~NonTerminal(agents[i]) => agents'[i] = agents[i]
                /\ CellOf(agents'[i]) = CellOf(agents[i])
                /\ (agents'[i].state = EVACUATING /\ Reachable(CellOf(agents[i]), Coord(2, 2)))
                     => IF agents'[i].path = <<>>
                        THEN CellOf(agents'[i]) = Coord(2, 2)
                        ELSE agents'[i].path[Len(agents'[i].path)] = Coord(2, 2)]_vars

\* a broadcast on a grid with a wall gave an agent a route of two or more waypoints
C8_Witness ==
    /\ lastOp = "evacuate"
    /\ \E c \in Cells : grid[c.y][c.x].isWall
    /\ \E i \in AgentIds :
          /\ agents[i].state = EVACUATING
          /\ Len(agents[i].path) >= 2
          /\ agents[i].path[Len(agents[i].path)] = Coord(2, 2)

(* C9: right after the clear command every cell has fire, flooded and safe-zone     *)
(* false, no agent is EVACUATING (each one that was is IDLE), every pending path is *)
(* empty, and wall flags, agent positions, targets, progress and the casualties and *)
(* evacuated counters are as before.                                                *)
C9_ClearFrame ==
    [][lastOp' = "clear" =>
          /\ \A c \in Cells :
                /\ ~grid'[c.y][c.x].isFire
                /\ ~grid'[c.y][c.x].isFlooded
                /\ ~grid'[c.y][c.x].isSafeZone
                /\ grid'[c.y][c.x].isWall = grid[c.y][c.x].isWall
          /\ DOMAIN agents' = DOMAIN agents
          /\ \A i \in AgentIds :
                /\ agents'[i].state # EVACUATING
                /\ agents[i].state = EVACUATING => agents'[i].state = IDLE
                /\ agents[i].state # EVACUATING => agents'[i].state = agents[i].state
                /\ agents'[i].path = <<>>
                /\ agents'[i].gridX = agents[i].gridX
                /\ agents'[i].gridY = agents[i].gridY
                /\ agents'[i].targetGridX = agents[i].targetGridX
                /\ agents'[i].targetGridY = agents[i].targetGridY
                /\ agents'[i].progress = agents[i].progress
          /\ stats'.casualties = stats.casualties
          /\ stats'.evacuated = stats.evacuated]_vars

\* clear came in the middle of an evacuation: one agent is out, another was stopped
\* part-way through a move made at evacuation speed, and a wall stands
C9_Witness ==
    /\ lastOp = "clear"
    /\ stats.evacuated > 0
    /\ \E i \in AgentIds :
          /\ agents[i].state = IDLE
          /\ agents[i].targetGridX # NULL
          /\ agents[i].progress = (BASE_SPEED * PANIC_SPEED_MODIFIER) \div 10

(* C10: every agent created by spawnAgents stands on a cell that is in bounds and   *)
(* is not a wall at the time of the spawn.                                          *)
C10_SpawnOnValidCell ==
    [][lastOp' = "spawn" =>
          \A i \in (DOMAIN agents') \ (DOMAIN agents) :
              /\ agents'[i].gridX \in Cols
              /\ agents'[i].gridY \in Rows
              /\ ~grid'[agents'[i].gridY][agents'[i].gridX].isWall]_vars


----------------------------------------------------------------------------
(* Properties of long runs (SpecRun) and of pathfinding (SpecPath) *)

NoWallNoFire == \A c \in Cells : ~grid[c.y][c.x].isWall /\ ~grid[c.y][c.x].isFire

(* C4: on a grid with no wall and no fire, once the evacuate command is issued and  *)
(* no command follows, repeated update passes bring every agent that was            *)
(* non-terminal at the broadcast to EVACUATED, and stats.evacuated counts them all. *)
C4_EvacuationCompletes ==
    (lastOp = "evacuate" /\ NoWallNoFire)
      ~> (/\ \A i \in AgentIds : agents[i].state = EVACUATED
          /\ stats.evacuated = Cardinality(AgentIds))

\* the broadcast reached an agent in the middle of a move
C4_Witness ==
    /\ lastOp = "evacuate"
    /\ NoWallNoFire
    /\ \E i \in AgentIds :
          /\ agents[i].state = EVACUATING
          /\ agents[i].targetGridX # NULL
          /\ agents[i].progress > 0
          /\ agents[i].path # <<>>

Destination == CHOOSE c \in Cells : grid[c.y][c.x].isSafeZone

(* C5: when the destination can be reached from the origin over orthogonal steps    *)
(* through cells that are neither wall nor fire, the path calculatePath assigns has *)
(* as many waypoints as the shortest such route has hops (none when the origin is   *)
(* the destination).                                                                *)
C5_ShortestPath ==
    lastOp = "calculatePath" =>
        \A i \in AgentIds :
            Reachable(CellOf(agents[i]), Destination)
              => Len(agents[i].path) = Hops(CellOf(agents[i]), Destination)

Manhattan(c, d) ==
    (IF c.x >= d.x THEN c.x - d.x ELSE d.x - c.x) + (IF c.y >= d.y THEN c.y - d.y ELSE d.y - c.y)

\* a path that had to go around wall or fire: longer than the Manhattan distance
C5_Witness ==
    /\ lastOp = "calculatePath"
    /\ \E i \in AgentIds :
          /\ Reachable(CellOf(agents[i]), Destination)
          /\ Len(agents[i].path) >= Manhattan(CellOf(agents[i]), Destination) + 2

(* C7: a path that calculatePath assigns does not contain the origin, ends at the   *)
(* destination, starts next to the agent's cell, makes orthogonal single steps, and *)
(* has no wall or fire waypoint (flooded waypoints are allowed).                    *)
C7_PathWellFormed ==
    lastOp = "calculatePath" =>
        \A i \in AgentIds :
            LET path == agents[i].path
                origin == CellOf(agents[i])
            IN (Reachable(origin, Destination) /\ path # <<>>) =>
                  /\ \A k \in DOMAIN path : path[k] # origin
                  /\ path[Len(path)] = Destination
                  /\ Adjacent(origin, path[1])
                  /\ \A k \in 1 .. Len(path) - 1 : Adjacent(path[k], path[k + 1])
                  /\ \A k \in DOMAIN path :
                        /\ path[k] \in Cells
                        /\ ~grid[path[k].y][path[k].x].isWall
                        /\ ~grid[path[k].y][path[k].x].isFire

\* a path of three or more waypoints, one of them flooded, on a grid with wall and fire
C7_Witness ==
    /\ lastOp = "calculatePath"
    /\ \E c \in Cells : grid[c.y][c.x].isWall
    /\ \E c \in Cells : grid[c.y][c.x].isFire
    /\ \E i \in AgentIds :
          /\ Len(agents[i].path) >= 3
          /\ \E k \in DOMAIN agents[i].path :
                grid[agents[i].path[k].y][agents[i].path[k].x].isFlooded


----------------------------------------------------------------------------
(* Spawning, the grid flags, clicks and unknown commands *)

\* an agent as spawnAgents creates it, standing on its cell
FreshAgent(a) ==
    /\ a.state = IDLE
    /\ a.path = <<>>
    /\ a.targetGridX = NULL /\ a.targetGridY = NULL
    /\ a.progress = 0
    /\ a.x = a.gridX * Fine /\ a.y = a.gridY * Fine /\ ~a.jitter

(* C11: spawnAgents(n) appends exactly n agents and changes no agent already in the  *)
(* collection; each new agent is IDLE with empty path, no target, progress 0 and its *)
(* visual position on its logical cell; right after init(n) stats.activeAgents is n. *)
C11_SpawnAppends ==
    /\ [](lastOp = "init" =>
            /\ 3 * Len(agents) = seedVal - DefaultSeed
            /\ stats.activeAgents = Len(agents)
            /\ \A i \in AgentIds : FreshAgent(agents[i]))
    /\ [][lastOp' = "spawn" =>
            /\ Len(agents') = Len(agents) + operand'.count
            /\ \A i \in AgentIds : agents'[i] = agents[i]
            /\ \A i \in DOMAIN agents' \ AgentIds : FreshAgent(agents'[i])]_vars

\* a spawn added an agent behind one that had moved on since its own spawn
C11_Witness ==
    /\ lastOp = "spawn"
    /\ Len(agents) = 2
    /\ ~FreshAgent(agents[1])
    /\ FreshAgent(agents[2])

(* C14: in every reachable state no grid cell has both isWall and isSafeZone true.  *)
C14_WallSafeExclusive ==
    \A c \in Cells : ~(grid[c.y][c.x].isWall /\ grid[c.y][c.x].isSafeZone)

\* the grid g with the wall flag of cell c flipped, all else as in g
Flipped(g, c) ==
    [y \in Rows |-> [x \in Cols |->
        IF Coord(x, y) = c THEN [g[y][x] EXCEPT !.isWall = ~g[y][x].isWall] ELSE g[y][x]]]

\* the cell under the pixel (px, py)
CellUnder(px, py) == Coord(px \div config.cellSize, py \div config.cellSize)

(* C15: a click at a pixel inside the grid flips the wall flag of the one cell under *)
(* the pixel and changes nothing else (no other flag, no agent field, even of an     *)
(* agent whose target or path goes through the cell); a click outside the grid       *)
(* changes nothing and emits no notification; a second click on the cell restores    *)
(* the grid.                                                                         *)
C15_ClickFrame ==
    [][lastOp' = "click" =>
          LET c == CellUnder(operand'.x, operand'.y)
          IN /\ agents' = agents
             /\ stats' = stats
             /\ seedVal' = seedVal
             /\ showHeatmap' = showHeatmap
             /\ IF c \in Cells
                THEN /\ grid' = Flipped(grid, c)
                     /\ Flipped(grid', c) = grid
                ELSE /\ grid' = grid
                     /\ emitted' = <<>>]_vars

\* a click walled a cell that an agent's pending path goes through
C15_Witness ==
    /\ lastOp = "click"
    /\ LET c == CellUnder(operand.x, operand.y)
       IN /\ c \in Cells
          /\ grid[c.y][c.x].isWall
          /\ \E i \in AgentIds : \E k \in DOMAIN agents[i].path : agents[i].path[k] = c

(* C16: a command whose first word is none of fire, flood, evacuate, clear, spawn,   *)
(* heatmap emits exactly one notification, of category alert, and leaves the grid,   *)
(* the agents, the stats, the heatmap flag and the RNG state unchanged.              *)
C16_UnknownCommand ==
    [][(lastOp' = "unknown" /\ operand'.word \notin CommandWords) =>
          /\ Len(emitted') = 1
          /\ emitted'[1].category = "alert"
          /\ grid' = grid
          /\ agents' = agents
          /\ stats' = stats
          /\ showHeatmap' = showHeatmap
          /\ seedVal' = seedVal]_vars

\* an unknown command arrived while an agent was in the middle of a move
C16_Witness ==
    /\ lastOp = "unknown"
    /\ \E i \in AgentIds : agents[i].targetGridX # NULL /\ agents[i].progress > 0

(* C20: in every reachable state no two agents of the collection have the same id.  *)
C20_UniqueIds ==
    \A i, j \in AgentIds : i # j => agents[i].id # agents[j].id


----------------------------------------------------------------------------
(* Movement *)

\* the visual position is exactly the logical cell
VisualAtCell(a) == a.x = a.gridX * Fine /\ a.y = a.gridY * Fine /\ ~a.jitter

\* the speed of the pass for an agent, in thousandths of a cell
SpeedOf(a) ==
    LET flooded == grid[a.gridY][a.gridX].isFlooded
        panic == a.state = EVACUATING
    IN IF flooded /\ panic THEN 30 ELSE IF flooded THEN 20 ELSE IF panic THEN 75 ELSE 50

(* C13: in the update pass in which an agent's progress reaches or exceeds 1.0 its   *)
(* logical cell becomes the target cell, its visual position is exactly that cell    *)
(* (no jitter, no interpolation residue), progress becomes 0 and the target null;    *)
(* so every agent without a target has progress 0 and its visual position on its     *)
(* logical cell, and every agent has 0 <= progress < 1.                              *)
C13_ArrivalSnaps ==
    /\ [][lastOp' = "update" =>
            \A i \in AgentIds :
                (/\ NonTerminal(agents[i])
                 /\ ~grid[agents[i].gridY][agents[i].gridX].isFire
                 /\ ~grid[agents[i].gridY][agents[i].gridX].isSafeZone
                 /\ agents[i].targetGridX # NULL
                 /\ agents[i].progress + SpeedOf(agents[i]) >= Arrived)
                  => /\ agents'[i].gridX = agents[i].targetGridX
                     /\ agents'[i].gridY = agents[i].targetGridY
                     /\ VisualAtCell(agents'[i])
                     /\ agents'[i].progress = 0
                     /\ agents'[i].targetGridX = NULL
                     /\ agents'[i].targetGridY = NULL]_vars
    /\ [](\A i \in AgentIds :
            /\ agents[i].targetGridX = NULL
                 => agents[i].progress = 0 /\ VisualAtCell(agents[i])
            /\ agents[i].progress >= 0
            /\ agents[i].progress < Arrived)

\* an evacuating agent has arrived at a waypoint of its path, more waypoints pending
C13_Witness ==
    /\ lastOp = "update"
    /\ \E i \in AgentIds :
          /\ agents[i].state = EVACUATING
          /\ agents[i].targetGridX = NULL
          /\ agents[i].path # <<>>
          /\ VisualAtCell(agents[i])


\* the four orthogonal cells of c in the order up, down, left, right, those in the grid
InGrid(d) == d \in Cells
Around(c) ==
    SelectSeq(<<Coord(c.x, c.y - 1), Coord(c.x, c.y + 1),
                Coord(c.x - 1, c.y), Coord(c.x + 1, c.y)>>, InGrid)

(* C19: on every grid of at least 2 x 2 cells, for every cell (x, y) of the grid,    *)
(* getNeighbors(x, y) returns between 2 and 4 cells, all in the grid, all at         *)
(* Manhattan distance 1 from (x, y), none twice, in the order up, down, left, right  *)
(* with the absent ones skipped; the target a wandering agent takes is one of them.  *)
C19_Neighbors ==
    /\ \A c \in Cells :
          LET ns == getNeighbors(c.x, c.y)
          IN /\ Len(ns) >= 2 /\ Len(ns) <= 4
             /\ \A k \in DOMAIN ns : ns[k] \in Cells /\ Manhattan(c, ns[k]) = 1
             /\ \A k, l \in DOMAIN ns : k # l => ns[k] # ns[l]
             /\ ns = Around(c)
    /\ lastOp = "update" =>
          \A i \in AgentIds :
              /\ agents[i].targetGridX # NULL
              /\ \E k \in DOMAIN Around(CellOf(agents[i])) :
                    Around(CellOf(agents[i]))[k]
                      = Coord(agents[i].targetGridX, agents[i].targetGridY)

\* on a grid of 2 x 3 cells an agent on the right edge has picked one of its three neighbours
C19_Witness ==
    /\ lastOp = "update"
    /\ config.gridCols = 2 /\ config.gridRows = 3
    /\ \E i \in AgentIds :
          /\ CellOf(agents[i]) = Coord(1, 1)
          /\ agents[i].targetGridX = 0
          /\ Len(getNeighbors(1, 1)) = 3


----------------------------------------------------------------------------
(* Notifications *)

\* how many notifications of the event the callback has received since init()
Received(event) ==
    BagCardinality([n \in {r \in BagToSet(reported) : r.event = event} |-> reported[n]])

DistinctIds == \A i, j \in AgentIds : i # j => agents[i].id # agents[j].id

(* C12: since init the callback has received as many 'terminated by fire' danger     *)
(* notifications as stats.casualties counts and as many 'safely evacuated' success   *)
(* notifications as stats.evacuated counts, and, the ids being distinct, no agent id *)
(* is the subject of more than one of them.                                          *)
C12_OncePerEvent ==
    /\ Received("terminated") = stats.casualties
    /\ Received("evacuated") = stats.evacuated
    /\ \A n \in BagToSet(reported) :
          n.category = (IF n.event = "terminated" THEN "danger" ELSE "success")
    /\ DistinctIds =>
          \A n, r \in BagToSet(reported) :
              /\ reported[n] = 1
              /\ n.about = r.about => n = r

\* two agents with ids of their own have each been notified of, and a later pass was silent
C12_Witness ==
    /\ lastOp = "update"
    /\ emitted = <<>>
    /\ DistinctIds
    /\ Len(agents) = 2
    /\ BagCardinality(reported) = 2


----------------------------------------------------------------------------
(* Frames *)

(* C18: while isRunning is false a call of loop leaves the grid, every agent, the    *)
(* stats (evacuationHistory and timeElapsed included), frameCount and the RNG state  *)
(* unchanged and still requests the next frame; the host's writes to isRunning       *)
(* change nothing else; and in a running frame the history timer advances by the     *)
(* time since the previous call of loop only, so the paused interval is not added    *)
(* to it after a resume.                                                             *)
C18_PauseLosesNothing ==
    /\ [][(lastOp' = "loop" /\ ~isRunning) =>
            /\ grid' = grid
            /\ agents' = agents
            /\ stats' = stats
            /\ frameCount' = frameCount
            /\ seedVal' = seedVal
            /\ timers'.evacHistoryTimer = timers.evacHistoryTimer
            /\ emitted' = <<>>
            /\ frame'.requests = 1]_vars
    /\ [][lastOp' \in {"pause", "resume"} =>
            /\ isRunning' = ~isRunning
            /\ UNCHANGED <<grid, agents, stats, frameCount, seedVal, timers, frame>>]_vars
    /\ [][(lastOp' = "loop" /\ isRunning) =>
            LET t == timers.evacHistoryTimer + (frame'.time - frame.time)
            IN /\ timers'.evacHistoryTimer = (IF t > 1000 THEN 0 ELSE t)
               /\ stats'.timeElapsed = stats.timeElapsed + (IF t > 1000 THEN 1 ELSE 0)
               /\ frameCount' = frameCount + 1
               /\ frame'.requests = 1]_vars

\* more than a second has passed on the clock, most of it paused; frames ran before and
\* after the pause and the history has not been rotated
C18_Witness ==
    /\ lastOp = "loop"
    /\ isRunning
    /\ budget.calls = 0
    /\ frameCount >= 2
    /\ frame.time > 1000
    /\ stats.timeElapsed = 0
    /\ \E i \in AgentIds : agents[i].targetGridX # NULL

----------------------------------------------------------------------------
\* C17: two engines constructed with the same seed, grid and agents and given the
\* same steps (frames, commands) in the same order are in the same state after
\* every step -- the grid, every agent with its state, cell, visual position,
\* target, path and progress, the counters, the generator -- and have sent the
\* same notifications in that step, whatever the times at which the frames of
\* the second arrive: no draw and no move reads the clock.
C17_SameSeedSameRun ==
    tape.run = 2 =>
        /\ Played + 1 <= Len(tape.log)
        /\ engineState = tape.log[Played + 1].state

\* the second engine has repeated a whole run of frames and commands in which
\* the generator was drawn from, and its latest frame came at another time
C17_Witness ==
    /\ tape.run = 2
    /\ Played + 1 = Len(tape.log)
    /\ Played >= MaxTicks
    /\ frame.time # tape.log[Played + 1].time
    /\ seedVal > tape.log[1].state.seedVal
    /\ \E k \in DOMAIN tape.log : tape.log[k].op = "spawn"
    /\ \E k \in DOMAIN tape.log : tape.log[k].op = "loop" /\ tape.log[k].state.emitted # <<>>
    /\ engineState = tape.log[Played + 1].state

----------------------------------------------------------------------------
\* C21: stats.evacuationHistory has exactly 60 entries in every reachable state,
\* non-decreasing from head to tail, the tail never above stats.evacuated; a
\* frame in which more than 1000 ms have accumulated since the last rotation
\* removes the head, appends stats.evacuated at the tail (the count before the
\* update pass of that frame), adds one to timeElapsed and publishes one stats
\* snapshot carrying the rotated window; every other step leaves the window and
\* timeElapsed alone and publishes nothing.
Rotates ==
    /\ lastOp' = "loop"
    /\ isRunning
    /\ timers.evacHistoryTimer + (frame'.time - timers.lastTime) > HistoryPeriod

C21_RollingHistory ==
    /\ [](/\ Len(stats.evacuationHistory) = HistoryLength
          /\ \A k \in 1 .. (HistoryLength - 1) :
                stats.evacuationHistory[k] <= stats.evacuationHistory[k + 1]
          /\ stats.evacuationHistory[HistoryLength] <= stats.evacuated)
    /\ [][IF Rotates
          THEN /\ stats'.evacuationHistory =
                     Append(Tail(stats.evacuationHistory), stats.evacuated)
               /\ stats'.timeElapsed = stats.timeElapsed + 1
               /\ timers'.evacHistoryTimer = 0
               /\ Len(frame'.published) = 1
               /\ frame'.published[1].evacuationHistory = stats'.evacuationHistory
               /\ frame'.published[1].timeElapsed = stats'.timeElapsed
          ELSE /\ stats'.evacuationHistory = stats.evacuationHistory
               /\ stats'.timeElapsed = stats.timeElapsed
               /\ lastOp' = "loop" => frame'.published = <<>>]_vars

\* the window has rotated twice and the later sample counts an evacuation the
\* earlier one did not
C21_Witness ==
    /\ lastOp = "loop"
    /\ Len(frame.published) = 1
    /\ stats.timeElapsed >= 2
    /\ stats.evacuationHistory[HistoryLength - 1] < stats.evacuationHistory[HistoryLength]
    /\ Len(stats.evacuationHistory) = HistoryLength

----------------------------------------------------------------------------
\* C22: an agent that passes the hazard checks of an update pass with no target
\* and a pending path whose first waypoint is on fire does not have that
\* waypoint as its target when the pass ends.
C22_AvoidsBurningWaypoint ==
    [][lastOp' = "update" =>
          \A i \in AgentIds :
              LET a == agents[i]
              IN (/\ Moves(a)
                  /\ a.targetGridX = NULL
                  /\ a.path # <<>>
                  /\ grid[a.path[1].y][a.path[1].x].isFire)
                   => ~(/\ agents'[i].targetGridX = a.path[1].x
                        /\ agents'[i].targetGridY = a.path[1].y)]_vars

----------------------------------------------------------------------------
\* C23: in an update pass a non-terminal agent whose logical cell is both on
\* fire and safe zone when the pass begins becomes DEAD and is counted in
\* casualties, not in evacuated; a non-terminal agent on a safe-zone cell that
\* is not on fire becomes EVACUATED, whether it was IDLE or EVACUATING, with
\* nothing else of it changed, and is counted in evacuated.
OnFire(a) == grid[a.gridY][a.gridX].isFire
OnSafeZone(a) == grid[a.gridY][a.gridX].isSafeZone

C23_FireBeforeSafeZone ==
    [][lastOp' = "update" =>
          LET both == {i \in AgentIds :
                         NonTerminal(agents[i]) /\ OnFire(agents[i]) /\ OnSafeZone(agents[i])}
              burning == {i \in AgentIds : NonTerminal(agents[i]) /\ OnFire(agents[i])}
              saved == {i \in AgentIds :
                          NonTerminal(agents[i]) /\ ~OnFire(agents[i]) /\ OnSafeZone(agents[i])}
          IN /\ \A i \in both : agents'[i].state = DEAD
             /\ \A i \in saved : agents'[i] = [agents[i] EXCEPT !.state = EVACUATED]
             /\ stats'.casualties = stats.casualties + Cardinality(burning)
             /\ stats'.evacuated = stats.evacuated + Cardinality(saved)]_vars

\* the pass just made has killed an agent that stood on a safe-zone cell on fire
C23_Witness ==
    /\ lastOp = "update"
    /\ \E i \in AgentIds :
          /\ agents[i].state = DEAD
          /\ OnFire(agents[i]) /\ OnSafeZone(agents[i])
          /\ \E k \in DOMAIN emitted : emitted[k] = note("danger", "terminated", agents[i].id)
    /\ stats.casualties >= 1
    /\ stats.evacuated = 0

----------------------------------------------------------------------------
\* C24: an EVACUATING agent with no target and an empty path, from whose cell the
\* safe cell (2,2) cannot be reached, is left by an update pass on its cell with
\* its visual position and progress, without target and without path; in the
\* first pass in which (2,2) can be reached it gets a path that ends there; and
\* once (2,2) can be reached and no command follows, repeated passes bring the
\* agent to EVACUATED.  (The agent is one that passes the hazard checks: not
\* standing on fire.)
Waiting(a) ==
    /\ a.state = EVACUATING
    /\ a.targetGridX = NULL
    /\ a.path = <<>>

C24_UnreachableRetried ==
    /\ [][lastOp' = "update" =>
            \A i \in AgentIds :
                LET a == agents[i]
                IN /\ (Waiting(a) /\ ~Reachable(CellOf(a), SafeCell)) =>
                         /\ CellOf(agents'[i]) = CellOf(a)
                         /\ agents'[i].x = a.x /\ agents'[i].y = a.y
                         /\ agents'[i].progress = a.progress
                         /\ agents'[i].targetGridX = NULL
                         /\ agents'[i].path = <<>>
                   /\ (Waiting(a) /\ Moves(a) /\ Reachable(CellOf(a), SafeCell)) =>
                         /\ CellOf(agents'[i]) = CellOf(a)
                         /\ agents'[i].path # <<>>
                         /\ agents'[i].path[Len(agents'[i].path)] = SafeCell]_vars
    /\ \A i \in 1 .. MaxAgents :
          (/\ i \in AgentIds
           /\ Waiting(agents[i])
           /\ ~OnFire(agents[i])
           /\ Reachable(CellOf(agents[i]), SafeCell)
           /\ budget.calls = 0)
            ~> (i \in AgentIds /\ agents[i].state = EVACUATED)

\* the last call of the run has toggled off the wall on (2,2), and an agent that
\* was waiting without a path can reach it now
C24_Witness ==
    /\ lastOp = "click"
    /\ budget.calls = 0
    /\ ~grid[SafeY][SafeX].isWall
    /\ grid[SafeY][SafeX].isSafeZone
    /\ \E i \in AgentIds :
          /\ Waiting(agents[i])
          /\ CellOf(agents[i]) # SafeCell
          /\ ~OnSafeZone(agents[i])
          /\ Reachable(CellOf(agents[i]), SafeCell)

----------------------------------------------------------------------------
\* C25: right after init(n) the agents are the ones the generator seeded with
\* config.seed produces -- cells and ids drawn at config.seed, config.seed + 1,
\* ... -- and the generator stands at config.seed + 3n, whatever was drawn
\* before the call.
C25_SeedGoverns ==
    lastOp = "init" =>
        /\ seedVal = config.seed + 3 * Len(agents)
        /\ agents = seededAgents(config.seed, Len(agents))

----------------------------------------------------------------------------
\* C26: whenever an agent has a target cell, the target is at Manhattan distance
\* exactly 1 from the agent's logical cell.
C26_SingleOrthogonalStep ==
    \A i \in AgentIds :
        agents[i].targetGridX # NULL =>
            Manhattan(CellOf(agents[i]),
                      Coord(agents[i].targetGridX, agents[i].targetGridY)) = 1

----------------------------------------------------------------------------
\* C27: in every state after init(), stats.casualties is the number of DEAD
\* agents, stats.evacuated the number of EVACUATED agents, and together with
\* the IDLE and EVACUATING agents they add up to the agents spawned since
\* init() -- the agentCount of init() plus the count of every spawn command
\* since; neither counter decreases except by init() itself, which starts both
\* from zero.
InState(st) == Cardinality({i \in AgentIds : agents[i].state = st})

C27_CountersAgree ==
    /\ [](/\ stats.casualties = InState(DEAD)
          /\ stats.evacuated = InState(EVACUATED)
          /\ stats.casualties + stats.evacuated + InState(IDLE) + InState(EVACUATING)
               = Len(agents))
    /\ [][IF lastOp' = "init"
          THEN /\ Len(agents') = operand'.count
               /\ stats'.casualties = 0 /\ stats'.evacuated = 0
          ELSE /\ stats'.casualties >= stats.casualties
               /\ stats'.evacuated >= stats.evacuated
               /\ Len(agents') = Len(agents) +
                                   (IF lastOp' = "spawn" THEN operand'.count ELSE 0)]_vars

\* since the latest init() one agent has been evacuated and another, spawned by a
\* command, has died
C27_Witness ==
    /\ lastOp = "update"
    /\ stats.casualties = 1
    /\ stats.evacuated = 1
    /\ InState(DEAD) = 1
    /\ InState(EVACUATED) = 1
    /\ Len(agents) = MaxAgents

----------------------------------------------------------------------------
\* C28: on the 24 x 16 grid of the constructor, in every reachable state every
\* agent's logical cell is a cell of the grid, so is its target when it has one
\* and every waypoint of its pending path, every 3 x 3 block the fire command
\* can draw lies inside the grid, and so does the 2 x 2 safe block of the
\* evacuate command.
C28_InsideGrid ==
    /\ config.gridCols = DefaultCols /\ config.gridRows = DefaultRows
    /\ \A i \in AgentIds :
          /\ CellOf(agents[i]) \in Cells
          /\ agents[i].targetGridX # NULL =>
                Coord(agents[i].targetGridX, agents[i].targetGridY) \in Cells
          /\ \A k \in DOMAIN agents[i].path : agents[i].path[k] \in Cells
    /\ \A rx \in randomInt(2, config.gridCols - 4), ry \in randomInt(2, config.gridRows - 4) :
          fireBlock(rx, ry) \subseteq Cells
    /\ safeBlock \subseteq Cells

\* an agent spawned in the far corner of the cells agents are spawned on has
\* taken the first waypoint of its way to the safe zone as target and holds the
\* rest of the way
C28_Witness ==
    /\ lastOp = "update"
    /\ safeBlock \subseteq Cells
    /\ \E i \in AgentIds :
          /\ agents[i].gridX = DefaultCols - 2
          /\ agents[i].gridY = DefaultRows - 2
          /\ agents[i].targetGridX # NULL
          /\ Coord(agents[i].targetGridX, agents[i].targetGridY) \in Cells
          /\ Len(agents[i].path) > DefaultRows
          /\ \A k \in DOMAIN agents[i].path : agents[i].path[k] \in Cells

====
